---- MODULE Spec2Model ----
(***************************************************************************)
(* A model of the request handlers of the Cuevana scraper addon            *)
(* (src/src/addon.py): AddonHandler and the catalog, metadata and stream   *)
(* handlers with their per-handler caches; of the page scraper             *)
(* (src/src/cuevana_scraper.py); and of the text utilities                 *)
(* (src/src/utils.py).                                                     *)
(*                                                                         *)
(* Python values are modelled as follows.                                  *)
(*   - None, and a key that a request mapping does not hold, is None (the  *)
(*     empty tuple); a present value v is the one-tuple <<v>>.             *)
(*   - A dict is a record (a function on strings); the empty dict {} and   *)
(*     the empty list [] are the empty function <<>>.                      *)
(*   - A str is a string, concatenated with \o as an f-string does.        *)
(* The scraper calls the handlers are written to make ("Implementation     *)
(* would call scraper") are the environment: each call of a fetch takes    *)
(* an upstream outcome, which is content or a raised exception.            *)
(***************************************************************************)
EXTENDS Integers, Sequences, FiniteSets, TLC

VARIABLES
    catalog_cache,    \* CatalogHandler.cache: never written by the handler
    metadata_cache,   \* MetadataHandler.cache: cache key -> meta dict
    stream_cache,     \* StreamHandler.cache: cache key -> list of streams
    last,             \* observer: the most recent handler call and what it did
    elapsed,          \* observer: seconds since the most recent handler call
    workers,          \* request workers: where each is in its handler call
    fetched,          \* observer: <<handler, key, content>> the workers fetched
                      \*   (kept while no clear_cache has run)
    cleared,          \* observer: whether clear_cache has run
    scraped,          \* observer: the most recent CuevanaScraper call
    computed          \* observer: the most recent call of a text utility

vars == <<catalog_cache, metadata_cache, stream_cache, last, elapsed, workers,
          fetched, cleared, scraped, computed>>

(* What the metadata and stream handlers and the clock leave alone. *)
other == <<catalog_cache, scraped, computed>>

None == <<>>
Some(v) == <<v>>

(* What an observer of calls holds while no call is recorded. *)
NoCall == [op |-> "init"]

-----------------------------------------------------------------------------
(* Program constants *)

CatalogMaxAge == 86400
MetadataMaxAge == 604800
StreamMaxAge == 3600

(* The kinds the addon manifest declares. *)
ManifestTypes == {"movie", "series"}

-----------------------------------------------------------------------------
(* Bounds and input sets *)

NumVersions == 2       \* distinct contents upstream can hold for one title
NumWorkers == 2        \* request workers of the threaded front door

Versions == 1 .. NumVersions

ReqTypes == {None, Some("podcast")}
ReqIds == {None, Some(""), Some("x")}
ReqSeasons == {None, Some(1)}
ReqEpisodes == {None, Some(1)}
ReqGenres == {None, Some("action")}
ReqSearches == {None, Some(""), Some("matrix")}

(* A request that is no mapping (request.get raises AttributeError). *)
NotAMapping == [isdict |-> FALSE]

CatalogRequests ==
    {NotAMapping} \cup
    [isdict : {TRUE}, type : ReqTypes, genre : ReqGenres, search : ReqSearches]

MetadataRequests ==
    {NotAMapping} \cup [isdict : {TRUE}, type : ReqTypes, id : ReqIds]

StreamRequests ==
    {NotAMapping} \cup
    [isdict : {TRUE}, type : ReqTypes, id : ReqIds,
     season : ReqSeasons, episode : ReqEpisodes]

(* What the upstream site gives one scraper call: a failure raised as an   *)
(* exception, nothing (version 0), or content.                              *)
Failure == [raises |-> TRUE, version |-> 0]
Content(v) == [raises |-> FALSE, version |-> v]

ListingUpstream == {Failure, Content(0), Content(1)}
StreamUpstream == {Failure, Content(0), Content(1)}
MetadataUpstream == {Failure} \cup {Content(v) : v \in Versions}

(* Seconds the clock can show since the most recent call. *)
Instants == {StreamMaxAge + 1, MetadataMaxAge + 1}

-----------------------------------------------------------------------------
(* Python helpers *)

(* dict.get(key, default) on a request whose field is None when absent *)
Get(value, default) == IF value = None THEN default ELSE value[1]

(* truthiness of an optional str *)
Truthy(value) == value # None /\ value[1] # ""

(* str(x) of an optional int inside an f-string *)
Str(value) == IF value = None THEN "None" ELSE ToString(value[1])

(* cache[key] = value on a cache dict *)
Put(cache, key, value) ==
    [k \in DOMAIN cache \cup {key} |-> IF k = key THEN value ELSE cache[k]]

EmptyDict == <<>>

(* cache_key in self.cache *)
CacheHit(cache, cache_key) == cache_key \in DOMAIN cache

-----------------------------------------------------------------------------
(* CatalogHandler *)

(* The three listing operations. Each is a stub that "would call scraper":  *)
(* what the scraper gives is the upstream outcome, as one entity that names *)
(* the operation and the arguments it was called with.                      *)
_search_catalog(query, content_type, upstream) ==
    IF upstream.version = 0 THEN <<>>
    ELSE <<[via |-> "search", arg |-> query, type |-> content_type,
            version |-> upstream.version]>>

_get_by_genre(genre, content_type, upstream) ==
    IF upstream.version = 0 THEN <<>>
    ELSE <<[via |-> "genre", arg |-> genre, type |-> content_type,
            version |-> upstream.version]>>

_get_popular(content_type, upstream) ==
    IF upstream.version = 0 THEN <<>>
    ELSE <<[via |-> "popular", arg |-> "", type |-> content_type,
            version |-> upstream.version]>>

(* A slip in the order of the branches: genre is tested before search. *)
CatalogBranch_genre_first(request) ==
    IF Truthy(request.genre) THEN "genre"
    ELSE IF Truthy(request.search) THEN "search"
    ELSE "popular"

(* Which listing operation get_catalog runs: if search / elif genre / else *)
CatalogBranch(request) ==
    IF Truthy(request.search) THEN "search"
    ELSE IF Truthy(request.genre) THEN "genre"
    ELSE "popular"

(* get_catalog(request): the envelope it returns, the listing operations it *)
(* ran, and whether an exception left it (request.get of a request that is  *)
(* no mapping, or a failure of the scraper call).                           *)
get_catalog(request, upstream) ==
    IF ~request.isdict
    THEN [raised |-> TRUE, ret |-> EmptyDict, ran |-> <<>>]
    ELSE
    LET content_type == Get(request.type, "movie")
        branch == CatalogBranch(request)
        metas == CASE branch = "search" ->
                        _search_catalog(request.search[1], content_type, upstream)
                   [] branch = "genre" ->
                        _get_by_genre(request.genre[1], content_type, upstream)
                   [] OTHER -> _get_popular(content_type, upstream)
    IN  IF upstream.raises
        THEN [raised |-> TRUE, ret |-> EmptyDict, ran |-> <<branch>>]
        ELSE [raised |-> FALSE,
              ret |-> [metas |-> metas, cacheMaxAge |-> CatalogMaxAge],
              ran |-> <<branch>>]

(* AddonHandler.handle_catalog: try get_catalog, except Exception *)
handle_catalog(request, upstream) ==
    LET r == get_catalog(request, upstream)
    IN  [raised |-> FALSE, caught |-> r.raised,
         ret |-> IF r.raised THEN [metas |-> <<>>] ELSE r.ret,
         ran |-> r.ran]

-----------------------------------------------------------------------------
(* MetadataHandler *)

(* _fetch_metadata: the dict it builds from its arguments; the scraper      *)
(* populates the remaining fields (name, poster, ...), here one field.      *)
_fetch_metadata(content_id, content_type, upstream) ==
    [id |-> content_id, type |-> content_type, name |-> upstream.version]

MetadataCacheKey(content_type, content_id) == content_type \o ":" \o content_id

(* A slip that rebinds the cache to a new dict holding the one entry. *)
MetadataStore_replacing(cache, cache_key, meta) ==
    IF meta # EmptyDict THEN Put(EmptyDict, cache_key, meta) ELSE cache

(* A slip that leaves out the write to the cache. *)
MetadataStore_skipped(cache, cache_key, meta) == cache

(* if meta: self.cache[cache_key] = meta *)
MetadataStore(cache, cache_key, meta) ==
    IF meta # EmptyDict THEN Put(cache, cache_key, meta) ELSE cache

(* A slip that tests the id with `is None`: the empty id goes on to the     *)
(* cache and the fetch.                                                     *)
get_metadata_none_only(request, cache, upstream) ==
    IF ~request.isdict
    THEN [raised |-> TRUE, ret |-> EmptyDict, cache |-> cache,
          fetches |-> 0, key |-> None]
    ELSE
    LET content_id == request.id
        content_type == Get(request.type, "movie")
        cache_key == MetadataCacheKey(content_type, content_id[1])
        meta == _fetch_metadata(content_id[1], content_type, upstream)
    IN  IF content_id = None
        THEN [raised |-> FALSE, ret |-> [meta |-> EmptyDict], cache |-> cache,
              fetches |-> 0, key |-> None]
        ELSE IF CacheHit(cache, cache_key)
        THEN [raised |-> FALSE, ret |-> [meta |-> cache[cache_key]],
              cache |-> cache, fetches |-> 0, key |-> Some(cache_key)]
        ELSE IF upstream.raises
        THEN [raised |-> TRUE, ret |-> EmptyDict, cache |-> cache,
              fetches |-> 1, key |-> Some(cache_key)]
        ELSE [raised |-> FALSE,
              ret |-> [meta |-> meta, cacheMaxAge |-> MetadataMaxAge],
              cache |-> MetadataStore(cache, cache_key, meta),
              fetches |-> 1, key |-> Some(cache_key)]

(* get_metadata(request) on cache `cache`: the envelope it returns, the    *)
(* cache it leaves, the calls of _fetch_metadata it made, the cache key it  *)
(* computed, and whether an exception left it.                              *)
get_metadata(request, cache, upstream) ==
    IF ~request.isdict
    THEN [raised |-> TRUE, ret |-> EmptyDict, cache |-> cache,
          fetches |-> 0, key |-> None]
    ELSE
    LET content_id == request.id
        content_type == Get(request.type, "movie")
        cache_key == MetadataCacheKey(content_type, content_id[1])
        meta == _fetch_metadata(content_id[1], content_type, upstream)
    IN  IF ~Truthy(content_id)
        THEN [raised |-> FALSE, ret |-> [meta |-> EmptyDict], cache |-> cache,
              fetches |-> 0, key |-> None]
        ELSE IF CacheHit(cache, cache_key)
        THEN [raised |-> FALSE, ret |-> [meta |-> cache[cache_key]],
              cache |-> cache, fetches |-> 0, key |-> Some(cache_key)]
        ELSE IF upstream.raises
        THEN [raised |-> TRUE, ret |-> EmptyDict, cache |-> cache,
              fetches |-> 1, key |-> Some(cache_key)]
        ELSE [raised |-> FALSE,
              ret |-> [meta |-> meta, cacheMaxAge |-> MetadataMaxAge],
              cache |-> MetadataStore(cache, cache_key, meta),
              fetches |-> 1, key |-> Some(cache_key)]

(* The handler without its try/except: the exception leaves it. *)
handle_metadata_uncaught(request, cache, upstream) ==
    LET r == get_metadata(request, cache, upstream)
    IN  [raised |-> r.raised, caught |-> FALSE, ret |-> r.ret,
         cache |-> r.cache, fetches |-> r.fetches, key |-> r.key]

(* AddonHandler.handle_metadata: try get_metadata, except Exception *)
handle_metadata(request, cache, upstream) ==
    LET r == get_metadata(request, cache, upstream)
    IN  [raised |-> FALSE, caught |-> r.raised,
         ret |-> IF r.raised THEN [meta |-> EmptyDict] ELSE r.ret,
         cache |-> r.cache, fetches |-> r.fetches, key |-> r.key]

-----------------------------------------------------------------------------
(* StreamHandler *)

(* _fetch_streams: streams = [], then the scraper call inside try/except:   *)
(* a failure of the call is logged and leaves the empty list.               *)
_fetch_streams(content_id, content_type, season, episode, upstream) ==
    IF upstream.raises \/ upstream.version = 0 THEN <<>>
    ELSE <<[url |-> "u" \o ToString(upstream.version)]>>

StreamCacheKey(content_type, content_id, season, episode) ==
    (content_type \o ":" \o content_id)
    \o (IF season # None THEN ":s" \o Str(season) \o "e" \o Str(episode) ELSE "")

(* A slip that stores whatever was fetched, the empty list too. *)
StreamStore_always(cache, cache_key, streams) == Put(cache, cache_key, streams)

(* if streams: self.cache[cache_key] = streams *)
StreamStore(cache, cache_key, streams) ==
    IF streams # <<>> THEN Put(cache, cache_key, streams) ELSE cache

(* get_streams(request) on cache `cache`, as get_metadata *)
get_streams(request, cache, upstream) ==
    IF ~request.isdict
    THEN [raised |-> TRUE, ret |-> EmptyDict, cache |-> cache,
          fetches |-> 0, key |-> None]
    ELSE
    LET content_id == request.id
        content_type == Get(request.type, "movie")
        season == request.season
        episode == request.episode
        cache_key == StreamCacheKey(content_type, content_id[1], season, episode)
        streams == _fetch_streams(content_id[1], content_type, season, episode,
                                  upstream)
    IN  IF ~Truthy(content_id)
        THEN [raised |-> FALSE, ret |-> [streams |-> <<>>], cache |-> cache,
              fetches |-> 0, key |-> None]
        ELSE IF CacheHit(cache, cache_key)
        THEN [raised |-> FALSE, ret |-> [streams |-> cache[cache_key]],
              cache |-> cache, fetches |-> 0, key |-> Some(cache_key)]
        ELSE [raised |-> FALSE,
              ret |-> [streams |-> streams, cacheMaxAge |-> StreamMaxAge],
              cache |-> StreamStore(cache, cache_key, streams),
              fetches |-> 1, key |-> Some(cache_key)]

(* AddonHandler.handle_stream: try get_streams, except Exception *)
handle_stream(request, cache, upstream) ==
    LET r == get_streams(request, cache, upstream)
    IN  [raised |-> FALSE, caught |-> r.raised,
         ret |-> IF r.raised THEN [streams |-> <<>>] ELSE r.ret,
         cache |-> r.cache, fetches |-> r.fetches, key |-> r.key]

-----------------------------------------------------------------------------
(* The addon serving one request at a time *)

Workers == 1 .. NumWorkers

Idle == [pc |-> "idle", handler |-> "", request |-> <<>>, key |-> "",
         value |-> <<>>]

Init ==
    /\ catalog_cache = EmptyDict
    /\ metadata_cache = EmptyDict
    /\ stream_cache = EmptyDict
    /\ last = [op |-> "init", seq |-> 0]
    /\ elapsed = 0
    /\ workers = [w \in Workers |-> Idle]
    /\ fetched = {}
    /\ cleared = FALSE
    /\ scraped = NoCall
    /\ computed = NoCall

conc == <<workers, fetched, cleared>>

(* One handler call, as the observer records it. *)
Call(op, request, r, ran) ==
    [op |-> op, seq |-> 1 - last.seq, request |-> request, ret |-> r.ret,
     raised |-> r.raised, caught |-> r.caught, fetches |-> r.fetches,
     key |-> r.key, ran |-> ran]

HandleCatalog ==
    \E request \in CatalogRequests, upstream \in ListingUpstream :
        LET r == handle_catalog(request, upstream)
        IN  /\ last' = Call("catalog", request,
                            [ret |-> r.ret, raised |-> r.raised,
                             caught |-> r.caught, fetches |-> Len(r.ran),
                             key |-> None], r.ran)
            /\ elapsed' = 0
            /\ UNCHANGED <<catalog_cache, metadata_cache, stream_cache, conc,
                           scraped, computed>>

HandleMetadata ==
    \E request \in MetadataRequests, upstream \in MetadataUpstream :
        LET r == handle_metadata(request, metadata_cache, upstream)
        IN  /\ metadata_cache' = r.cache
            /\ last' = Call("meta", request, r, <<>>)
            /\ elapsed' = 0
            /\ UNCHANGED <<stream_cache, conc, other>>

HandleStream ==
    \E request \in StreamRequests, upstream \in StreamUpstream :
        LET r == handle_stream(request, stream_cache, upstream)
        IN  /\ stream_cache' = r.cache
            /\ last' = Call("stream", request, r, <<>>)
            /\ elapsed' = 0
            /\ UNCHANGED <<metadata_cache, conc, other>>

(* CatalogHandler.clear_cache *)
ClearCatalogCache ==
    /\ catalog_cache' = EmptyDict
    /\ last' = [op |-> "clear_catalog", seq |-> 1 - last.seq]
    /\ elapsed' = 0
    /\ UNCHANGED <<metadata_cache, stream_cache, conc, scraped, computed>>

(* MetadataHandler.clear_cache *)
ClearMetadataCache ==
    /\ metadata_cache' = EmptyDict
    /\ last' = [op |-> "clear_meta", seq |-> 1 - last.seq]
    /\ elapsed' = 0
    /\ UNCHANGED <<stream_cache, conc, other>>

(* StreamHandler.clear_cache *)
ClearStreamCache ==
    /\ stream_cache' = EmptyDict
    /\ last' = [op |-> "clear_stream", seq |-> 1 - last.seq]
    /\ elapsed' = 0
    /\ UNCHANGED <<metadata_cache, conc, other>>

(* Time passes between two calls. *)
Tick ==
    \E t \in Instants :
        /\ t > elapsed
        /\ elapsed' = t
        /\ UNCHANGED <<metadata_cache, stream_cache, last, conc, other>>

Next ==
    \/ HandleCatalog
    \/ HandleMetadata
    \/ HandleStream
    \/ ClearCatalogCache
    \/ ClearMetadataCache
    \/ ClearStreamCache

Spec == Init /\ [][Next]_vars

(* The cached handlers with the clock running between calls. *)
NextAge ==
    \/ HandleMetadata
    \/ HandleStream
    \/ Tick

SpecAge == Init /\ [][NextAge]_vars

-----------------------------------------------------------------------------
(* The addon under the threaded front door (app.run(threaded=True)):       *)
(* several workers run get_metadata / get_streams on the shared caches. A   *)
(* step is one access to a cache dict (atomic in CPython) or the fetch.     *)

ConcMetadataRequests == {r \in MetadataRequests : r.isdict /\ Truthy(r.id)}
ConcStreamRequests ==
    {r \in StreamRequests :
        r.isdict /\ Truthy(r.id) /\ r.type = None /\ r.season = None}

Cache(handler) == IF handler = "meta" THEN metadata_cache ELSE stream_cache

(* Lines up to the cache check: the worker computes its key and tests       *)
(* `cache_key in self.cache`.                                               *)
Begin(w) ==
    /\ workers[w].pc = "idle"
    /\ \E handler \in {"meta", "stream"} :
         \E request \in IF handler = "meta" THEN ConcMetadataRequests
                                            ELSE ConcStreamRequests :
            LET content_type == Get(request.type, "movie")
                cache_key ==
                    IF handler = "meta"
                    THEN MetadataCacheKey(content_type, request.id[1])
                    ELSE StreamCacheKey(content_type, request.id[1],
                                        request.season, request.episode)
            IN  workers' = [workers EXCEPT ![w] =
                    [pc |-> IF CacheHit(Cache(handler), cache_key)
                            THEN "hit" ELSE "fetch",
                     handler |-> handler, request |-> request,
                     key |-> cache_key, value |-> <<>>]]
    /\ UNCHANGED <<metadata_cache, stream_cache, last, elapsed, fetched, cleared, other>>

(* return {"meta": self.cache[cache_key]}: a KeyError when the entry was   *)
(* cleared since the check is caught by the entry point; either way the     *)
(* call ends without a fetch.                                               *)
ReturnCached(w) ==
    /\ workers[w].pc = "hit"
    /\ workers' = [workers EXCEPT ![w] = Idle]
    /\ UNCHANGED <<metadata_cache, stream_cache, last, elapsed, fetched, cleared, other>>

Record(f) == IF cleared THEN fetched ELSE fetched \cup {f}

(* meta = self._fetch_metadata(...) / streams = self._fetch_streams(...) *)
Fetch(w) ==
    /\ workers[w].pc = "fetch"
    /\ LET request == workers[w].request
           content_type == Get(request.type, "movie")
       IN
       \/ /\ workers[w].handler = "meta"
          /\ \E upstream \in MetadataUpstream :
                IF upstream.raises
                THEN /\ workers' = [workers EXCEPT ![w] = Idle]
                     /\ UNCHANGED fetched
                ELSE /\ workers' = [workers EXCEPT ![w].pc = "store",
                            ![w].value = _fetch_metadata(request.id[1],
                                             content_type, upstream)]
                     /\ fetched' = Record(<<"meta", workers[w].key,
                                _fetch_metadata(request.id[1], content_type,
                                                upstream)>>)
       \/ /\ workers[w].handler = "stream"
          /\ \E upstream \in StreamUpstream :
                LET streams == _fetch_streams(request.id[1], content_type,
                                   request.season, request.episode, upstream)
                IN  /\ workers' = [workers EXCEPT ![w].pc = "store",
                                                  ![w].value = streams]
                    /\ fetched' = IF streams # <<>>
                                  THEN Record(<<"stream", workers[w].key,
                                                streams>>)
                                  ELSE fetched
    /\ UNCHANGED <<metadata_cache, stream_cache, last, elapsed, cleared, other>>

(* if meta: self.cache[cache_key] = meta, and the return *)
Store(w) ==
    /\ workers[w].pc = "store"
    /\ IF workers[w].handler = "meta"
       THEN /\ metadata_cache' =
                   MetadataStore(metadata_cache, workers[w].key, workers[w].value)
            /\ UNCHANGED stream_cache
       ELSE /\ stream_cache' =
                   StreamStore(stream_cache, workers[w].key, workers[w].value)
            /\ UNCHANGED metadata_cache
    /\ workers' = [workers EXCEPT ![w] = Idle]
    /\ UNCHANGED <<last, elapsed, fetched, cleared, other>>

(* clear_cache of either handler, called while workers run *)
ClearCache ==
    /\ \/ metadata_cache' = EmptyDict /\ UNCHANGED stream_cache
       \/ stream_cache' = EmptyDict /\ UNCHANGED metadata_cache
    /\ cleared' = TRUE
    /\ fetched' = {}
    /\ UNCHANGED <<last, elapsed, workers, other>>

NextConc ==
    \/ \E w \in Workers : Begin(w)
    \/ \E w \in Workers : ReturnCached(w)
    \/ \E w \in Workers : Fetch(w)
    \/ \E w \in Workers : Store(w)
    \/ ClearCache

SpecConc == Init /\ [][NextConc]_vars

-----------------------------------------------------------------------------
(* Properties of the handlers *)

HandlerOps == {"catalog", "meta", "stream"}

IsSequence(x) == DOMAIN x = 1 .. Cardinality(DOMAIN x)
IsMapping(x) == \A k \in DOMAIN x : k \in STRING

(* The (kind, id, season, episode) a cached-handler request asks for. *)
ContentType(request) == Get(request.type, "movie")
MetadataTuple(request) == <<ContentType(request), request.id>>
StreamTuple(request) ==
    <<ContentType(request), request.id, request.season, request.episode>>

(* last and last' are two successive calls of handler op, both of which    *)
(* got past the identifier check and computed a cache key.                  *)
Successive(op) ==
    /\ last.op = op /\ last'.op = op /\ last'.seq # last.seq
    /\ last.key # None /\ last'.key # None

(* C1: handle_catalog, handle_metadata and handle_stream never raise, for  *)
(* any request (a request that is no mapping included) and any exception    *)
(* raised inside the handler: each returns an envelope carrying its own     *)
(* key, 'metas' a sequence, 'meta' a mapping, 'streams' a sequence.         *)
C1_NeverRaise ==
    last.op \in HandlerOps =>
        /\ ~last.raised
        /\ last.op = "catalog" =>
              "metas" \in DOMAIN last.ret /\ IsSequence(last.ret.metas)
        /\ last.op = "meta" =>
              "meta" \in DOMAIN last.ret /\ IsMapping(last.ret.meta)
        /\ last.op = "stream" =>
              "streams" \in DOMAIN last.ret /\ IsSequence(last.ret.streams)

C1_Witness ==
    /\ last.op = "meta" /\ last.caught /\ last.request.isdict
    /\ last.ret = [meta |-> EmptyDict]

(* C2: two successive get_metadata calls for the same (type, id) with no   *)
(* clear_cache between them run _fetch_metadata at most once, exactly once  *)
(* when the first call was a miss: the second call is a hit that fetches    *)
(* nothing and returns the value the first call stored or served.           *)
C2_SecondCallIsHit ==
    [][(/\ Successive("meta")
        /\ MetadataTuple(last'.request) = MetadataTuple(last.request)
        /\ ~last.caught)
       => /\ last'.fetches = 0
          /\ last.fetches + last'.fetches <= 1
          /\ last'.ret.meta = last.ret.meta
          /\ last'.ret.meta = metadata_cache[last.key[1]]]_vars

C2_Witness ==
    /\ last.op = "meta" /\ last.key # None /\ last.fetches = 0
    /\ last.ret.meta # EmptyDict

(* C3: no entry of the stream cache ever holds an empty list, and after a  *)
(* get_streams call whose fetch gave the empty list the next get_streams    *)
(* call for the same (type, id, season, episode) fetches again.             *)
C3_EmptyNotCached ==
    /\ [](\A k \in DOMAIN stream_cache : stream_cache[k] # <<>>)
    /\ [][(/\ Successive("stream")
            /\ StreamTuple(last'.request) = StreamTuple(last.request)
            /\ last.fetches = 1 /\ last.ret.streams = <<>>)
           => last'.fetches = 1]_vars

C3_Witness ==
    /\ last.op = "stream" /\ last.key # None /\ last.fetches = 1
    /\ last.ret.streams = <<>>
    /\ last.key[1] \notin DOMAIN stream_cache

(* C4: two get_streams requests whose (type, id, season, episode) differ   *)
(* in any component never use the same cache entry: after a call that       *)
(* cached its result, a call for a different tuple has another key, so it   *)
(* is never answered from the entry of the first.                           *)
C4_KeyIsFullTuple ==
    [][(/\ Successive("stream")
        /\ StreamTuple(last'.request) # StreamTuple(last.request)
        /\ last.fetches = 1 /\ last.ret.streams # <<>>)
       => /\ last'.key # last.key
          /\ ~(last'.fetches = 0 /\ last'.ret.streams = stream_cache[last.key[1]])]_vars

(* C5: a request that arrives after the freshness window of its kind has   *)
(* elapsed since the previous call for the same key is a miss and fetches   *)
(* again (7 days for metadata, 1 hour for stream links).                    *)
C5_ExpiredIsMiss ==
    [][/\ (Successive("meta") /\ last'.key = last.key
            /\ elapsed > MetadataMaxAge) => last'.fetches = 1
       /\ (Successive("stream") /\ last'.key = last.key
            /\ elapsed > StreamMaxAge) => last'.fetches = 1]_vars

(* C6: with several workers running get_metadata / get_streams and no      *)
(* clear_cache, no update is lost: once all workers have finished, every    *)
(* key some worker fetched content for is in the cache with a value that a  *)
(* worker fetched for that key, and a call begun then for such a key takes  *)
(* the hit path, which makes no fetch.                                      *)
Quiescent == \A w \in Workers : workers[w].pc = "idle"

C6_NoLostUpdate ==
    /\ []((Quiescent /\ ~cleared) =>
            \A f \in fetched :
                /\ f[2] \in DOMAIN Cache(f[1])
                /\ \E g \in fetched :
                      /\ g[1] = f[1] /\ g[2] = f[2]
                      /\ Cache(f[1])[f[2]] = g[3])
    /\ [][(Quiescent /\ ~cleared) =>
            \A w \in Workers :
                (/\ workers'[w].pc # "idle"
                 /\ \E f \in fetched :
                       f[1] = workers'[w].handler /\ f[2] = workers'[w].key)
                => workers'[w].pc = "hit"]_vars

(* Two workers raced on one key and fetched different contents for it, a   *)
(* worker filled a second key, and all have finished.                       *)
C6_Witness ==
    /\ Quiescent /\ ~cleared
    /\ \E f, g \in fetched : f[1] = g[1] /\ f[2] = g[2] /\ f[3] # g[3]
    /\ DOMAIN metadata_cache = {"movie:x", "podcast:x"}
    /\ DOMAIN stream_cache = {"movie:x"}

(* C7: an entry written to the metadata or stream cache is served          *)
(* unchanged: the value under its key is never replaced by a later write    *)
(* (the entry can only disappear, by clear_cache).                          *)
C7_WrittenOnce ==
    [][/\ \A k \in DOMAIN metadata_cache :
            k \in DOMAIN metadata_cache' => metadata_cache'[k] = metadata_cache[k]
       /\ \A k \in DOMAIN stream_cache :
            k \in DOMAIN stream_cache' => stream_cache'[k] = stream_cache[k]]_vars

(* C8: a request with an unrecognized kind or with no identifier is        *)
(* rejected: no fetch is attempted for it, and its answer differs from the  *)
(* empty envelope that answers an upstream failure.                         *)
Unrecognized(request) == ContentType(request) \notin ManifestTypes
NoIdentifier(request) == ~Truthy(request.id)

FailureEnvelope(op) ==
    CASE op = "catalog" -> [metas |-> <<>>]
      [] op = "meta" -> [meta |-> EmptyDict]
      [] op = "stream" -> [streams |-> <<>>]

C8_InvalidRejected ==
    (/\ last.op \in HandlerOps
     /\ last.request.isdict
     /\ \/ Unrecognized(last.request)
        \/ last.op # "catalog" /\ NoIdentifier(last.request))
    => /\ last.fetches = 0
       /\ last.ret # FailureEnvelope(last.op)

(* C9: get_catalog runs exactly one listing operation: search when search  *)
(* text is present, else the genre listing when a genre is present, else    *)
(* the popular listing; its metas are the result of that operation.         *)
C9_Expected(request) ==
    CASE request.search \notin {None, Some("")} ->
             [via |-> "search", arg |-> request.search[1]]
      [] request.search \in {None, Some("")}
         /\ request.genre \notin {None, Some("")} ->
             [via |-> "genre", arg |-> request.genre[1]]
      [] OTHER -> [via |-> "popular", arg |-> ""]

C9_OneListing ==
    (last.op = "catalog" /\ last.request.isdict) =>
        LET want == C9_Expected(last.request)
        IN  /\ last.ran = <<want.via>>
            /\ ~last.caught =>
                  \A i \in DOMAIN last.ret.metas :
                      /\ last.ret.metas[i].via = want.via
                      /\ last.ret.metas[i].arg = want.arg
                      /\ last.ret.metas[i].type = ContentType(last.request)

C9_Witness ==
    /\ last.op = "catalog" /\ last.request.isdict
    /\ last.request.search = Some("matrix")
    /\ last.request.genre = Some("action")
    /\ last.ran = <<"search">>
    /\ last.ret.metas # <<>>

(* C10: every response of the catalog entry point, the one given when the  *)
(* handler fails internally included, holds a metas sequence and a          *)
(* freshness hint of 24 hours.                                              *)
C10_CatalogEnvelope ==
    last.op = "catalog" =>
        /\ "metas" \in DOMAIN last.ret
        /\ "cacheMaxAge" \in DOMAIN last.ret
        /\ last.ret.cacheMaxAge = 86400

(* The request of the call is a mapping that holds no id, or the empty one. *)
NoId(call) == call.request.isdict /\ ~Truthy(call.request.id)

(* C23: a get_metadata or get_streams call whose request has no id (absent  *)
(* or empty) returns the empty envelope, {'meta': {}} or {'streams': []},   *)
(* makes no fetch and leaves every cache as it was; a get_catalog call      *)
(* leaves every cache as it was too, and the catalog cache is empty in      *)
(* every reachable state.                                                   *)
C23_NoIdAndCatalogFrame ==
    /\ [](catalog_cache = EmptyDict)
    /\ [][/\ (last' # last /\ last'.op \in {"meta", "stream"} /\ NoId(last'))
               => /\ last'.ret = IF last'.op = "meta"
                                 THEN [meta |-> EmptyDict]
                                 ELSE [streams |-> <<>>]
                  /\ ~last'.raised /\ ~last'.caught
                  /\ last'.fetches = 0
                  /\ UNCHANGED <<catalog_cache, metadata_cache, stream_cache>>
          /\ (last' # last /\ last'.op = "catalog")
               => UNCHANGED <<catalog_cache, metadata_cache, stream_cache>>]_vars

(* A metadata call with the empty id made while both caches hold entries,   *)
(* which it leaves in place.                                                *)
C23_Witness ==
    /\ last.op = "meta"
    /\ last.request.isdict
    /\ last.request.id = Some("")
    /\ last.ret = [meta |-> EmptyDict]
    /\ last.fetches = 0
    /\ metadata_cache # EmptyDict
    /\ stream_cache # EmptyDict
    /\ catalog_cache = EmptyDict

-----------------------------------------------------------------------------
(* CuevanaScraper (src/src/cuevana_scraper.py)                              *)
(*                                                                          *)
(* A page is the sequence of the nodes its selector matches, in document    *)
(* order.  A node holds, for each select_one the parser makes, None or the  *)
(* matched tag: a text for a tag read with get_text, the attribute dict     *)
(* (attribute name -> value, present attributes only) for a tag read with   *)
(* get.  An optional str is None or Some of the string.                     *)

ID_PREFIX == "cuevanap_"
CUEVANA_PRO_URL == "https://cuevana.pro/"

(* The largest number of nodes of a page. *)
MaxItems == 3

(* str.startswith *)
startswith(s, prefix) ==
    Len(s) >= Len(prefix) /\ SubSeq(s, 1, Len(prefix)) = prefix

(* the least index >= from where character ch stands in s, 0 when none *)
RECURSIVE IndexFrom(_, _, _)
IndexFrom(s, ch, from) ==
    IF from > Len(s) THEN 0
    ELSE IF SubSeq(s, from, from) = ch THEN from
    ELSE IndexFrom(s, ch, from + 1)

(* the greatest index where character ch stands in s, 0 when none *)
RECURSIVE LastIndex(_, _, _)
LastIndex(s, ch, upto) ==
    IF upto = 0 THEN 0
    ELSE IF SubSeq(s, upto, upto) = ch THEN upto
    ELSE LastIndex(s, ch, upto - 1)

(* str.strip() of blanks, which get_text(strip=True) applies *)
RECURSIVE strip(_)
strip(s) ==
    IF s = "" THEN s
    ELSE IF SubSeq(s, 1, 1) = " " THEN strip(SubSeq(s, 2, Len(s)))
    ELSE IF SubSeq(s, Len(s), Len(s)) = " "
    THEN strip(SubSeq(s, 1, Len(s) - 1))
    ELSE s

SchemeChars ==
    LET letters == "abcdefghijklmnopqrstuvwxyz0123456789+-."
    IN  {SubSeq(letters, i, i) : i \in 1..Len(letters)}

(* urlsplit(url).scheme: the characters before the first ':' when there is  *)
(* at least one and all are scheme characters, else the empty string        *)
UrlScheme(url) ==
    LET colon == IndexFrom(url, ":", 1)
    IN  IF /\ colon > 1
           /\ \A i \in 1..(colon - 1) : SubSeq(url, i, i) \in SchemeChars
        THEN SubSeq(url, 1, colon - 1)
        ELSE ""

(* urllib.parse.urljoin(base, url), for a base and a reference without      *)
(* query, fragment or dot segments: an empty reference is the base; a        *)
(* reference of another scheme is returned as it is; a reference with a      *)
(* network location takes the scheme only; a rooted path replaces the path   *)
(* of the base; any other path replaces its last segment.                    *)
urljoin(base, url) ==
    IF url = "" THEN base
    ELSE
    LET bscheme == UrlScheme(base)
        scheme == UrlScheme(url)
        ref == IF scheme = "" THEN url
               ELSE SubSeq(url, Len(scheme) + 2, Len(url))
        netloc_end == IndexFrom(base, "/", Len(bscheme) + 4)
        origin == IF netloc_end = 0 THEN base
                  ELSE SubSeq(base, 1, netloc_end - 1)
        directory == IF netloc_end = 0 THEN base \o "/"
                     ELSE SubSeq(base, 1, LastIndex(base, "/", Len(base)))
    IN  IF scheme # "" /\ scheme # bscheme THEN url
        ELSE IF startswith(ref, "//") THEN bscheme \o ":" \o ref
        ELSE IF startswith(ref, "/") THEN origin \o ref
        ELSE directory \o ref

(* tag.get(name, default) on an attribute dict; default an optional str *)
AttrGet(attrs, name, default) ==
    IF name \in DOMAIN attrs THEN Some(attrs[name]) ELSE default

(* x or y on optional strs *)
Or(x, y) == IF Truthy(x) THEN x ELSE y

(* the attribute dict of a tag that holds attribute name when value is not  *)
(* None                                                                     *)
Attr(name, value) == IF value = None THEN <<>> ELSE (name :> value[1])

Optional(S) == {None} \cup {Some(v) : v \in S}

(* A node the parser cannot read: a call made on it raises. *)
Unparsable == [unparsable |-> TRUE]

Hrefs == {"", "/ver/matrix", "ver/matrix", "https://cuevana.pro/ver/matrix",
          "http-peliculas/matrix"}
Anchors == {Attr("href", href) : href \in Optional(Hrefs)}
Images ==
    {Attr("src", src) @@ Attr("data-src", lazy) :
        src \in Optional({"", "https://cuevana.pro/p.jpg"}),
        lazy \in Optional({"", "https://cuevana.pro/lazy.jpg"})}

(* The item nodes of a listing page. *)
ItemElements ==
    [title : Optional({"", "Matrix", " Matrix "}), link : Optional(Anchors),
     poster : Optional(Images), year : Optional({"1999"})] \cup {Unparsable}

(* The player nodes of a movie page. *)
StreamElements ==
    [text : {"", "Server 1"},
     attrs : {Attr("href", href) @@ Attr("data-url", data) :
                 href \in Optional({"", "https://player.example/a"}),
                 data \in Optional({"", "https://player.example/b"})}]
    \cup {Unparsable}

(* _parse_movie_item and _parse_series_item, which differ in 'type' only:   *)
(* None when a call on the node raises or when the title or the link is     *)
(* not found, else the entity.                                              *)
ParseItem(element, content_type) ==
    IF element = Unparsable THEN None
    ELSE IF element.title = None \/ element.link = None THEN None
    ELSE
    LET href == AttrGet(element.link[1], "href", Some(""))[1]
        movie_url == IF ~startswith(href, "http")
                     THEN urljoin(CUEVANA_PRO_URL, href)
                     ELSE href
    IN  [type |-> content_type,
         id |-> ID_PREFIX \o movie_url,
         name |-> strip(element.title[1]),
         poster |-> IF element.poster # None
                    THEN AttrGet(element.poster[1], "src",
                                 AttrGet(element.poster[1], "data-src", None))
                    ELSE Some(""),
         year |-> IF element.year # None THEN strip(element.year[1]) ELSE "",
         url |-> movie_url]

_parse_movie_item(element) == ParseItem(element, "movie")

_parse_series_item(element) == ParseItem(element, "series")

(* The prefix of a stream title, standing for the television sign U+1F4FA   *)
(* and a blank.                                                             *)
StreamTitlePrefix == "[tv] "

(* _parse_stream: None when a call on the node raises or the url is falsy *)
_parse_stream(element) ==
    IF element = Unparsable THEN None
    ELSE
    LET server_name == strip(element.text)
        stream_url == AttrGet(element.attrs, "href",
                              AttrGet(element.attrs, "data-url", None))
    IN  IF ~Truthy(stream_url) THEN None
        ELSE [url |-> stream_url[1],
              title |-> StreamTitlePrefix \o server_name,
              server |-> server_name]

(* _extract_poster on the img.poster / img.thumbnail tag of a page *)
_extract_poster(poster) ==
    IF poster # None
    THEN Or(AttrGet(poster[1], "src", None),
            Or(AttrGet(poster[1], "data-src", None), Some("")))
    ELSE Some("")

(* _extract_title on the h1 / .title tag of a page *)
_extract_title(title) == IF title # None THEN strip(title[1]) ELSE ""

(* What session.get(url, timeout=10) gives: an exception of requests, or a  *)
(* response with its status and the nodes of its content.                   *)
Timeout == [outcome |-> "Timeout"]
ConnectionError == [outcome |-> "ConnectionError"]
HttpResponse(status_code, content) ==
    [outcome |-> "response", status_code |-> status_code, content |-> content]

(* session.get followed by response.raise_for_status() raises *)
RequestFails(response) ==
    \/ response.outcome # "response"
    \/ response.status_code >= 400

Responses(pages) ==
    {Timeout, ConnectionError, HttpResponse(404, <<>>), HttpResponse(503, <<>>)}
    \cup {HttpResponse(200, page) : page \in pages}

SeqsUpTo(S, n) == UNION {[1..k -> S] : k \in 0..n}

Card(title, href) ==
    [title |-> Some(title), link |-> Some(Attr("href", Some(href))),
     poster |-> None, year |-> None]

(* The item nodes that listing pages are made of: two well-formed ones, one *)
(* without title, one without link, one the parser cannot read.             *)
PageElements ==
    {Card("Matrix", "/ver/matrix"),
     Card("Dune", "https://cuevana.pro/ver/dune"),
     [Card("Matrix", "/ver/matrix") EXCEPT !.title = None],
     [Card("Dune", "/ver/dune") EXCEPT !.link = None],
     Unparsable}

ListingPages == SeqsUpTo(PageElements, MaxItems)

PlayerElements ==
    {[text |-> "Server 1", attrs |-> Attr("href", Some("https://player.example/a"))],
     [text |-> "Server 2", attrs |-> Attr("data-url", Some("https://player.example/b"))],
     [text |-> "Server 3", attrs |-> <<>>],
     Unparsable}

StreamPages == SeqsUpTo(PlayerElements, MaxItems)

DetailPages ==
    [title : Optional({"Matrix"}), poster : Optional(Images)]

Queries == {None, Some("matrix")}
Limits == {0, 1, MaxItems}
MovieUrls == {"https://cuevana.pro/ver/matrix"}

(* A slip that leaves the loop at the first node that gives no entity. *)
ParseItems_aborting(items, limit, kind) ==
    LET n == IF limit = None \/ limit[1] > Len(items) THEN Len(items)
             ELSE limit[1]
        parsed(i) == IF kind = "stream" THEN _parse_stream(items[i])
                     ELSE IF kind = "series" THEN _parse_series_item(items[i])
                     ELSE _parse_movie_item(items[i])
        stop == IF \E i \in 1..n : parsed(i) = None
                THEN CHOOSE i \in 1..n :
                        parsed(i) = None /\ \A j \in 1..(i - 1) : parsed(j) # None
                ELSE n + 1
    IN  [i \in 1..(stop - 1) |-> parsed(i)]

(* A slip that applies the limit to the entities instead of the nodes: the  *)
(* nodes that give no entity are dropped first, so later nodes fill in.     *)
ParseItems_filling(items, limit, kind) ==
    LET parsed == [i \in 1..Len(items) |->
                      IF kind = "stream" THEN _parse_stream(items[i])
                      ELSE IF kind = "series" THEN _parse_series_item(items[i])
                      ELSE _parse_movie_item(items[i])]
        entities == SelectSeq(parsed, LAMBDA entity : entity # None)
        n == IF limit = None \/ limit[1] > Len(entities) THEN Len(entities)
             ELSE limit[1]
    IN  SubSeq(entities, 1, n)

(* for item in soup.select(...)[:limit], without the slice when limit is    *)
(* None: parse each node with the parser of its kind and append what is     *)
(* truthy; a node that gives None is passed over                            *)
ParseItems(items, limit, kind) ==
    LET n == IF limit = None \/ limit[1] > Len(items) THEN Len(items)
             ELSE limit[1]
        parsed == [i \in 1..n |->
                      IF kind = "stream" THEN _parse_stream(items[i])
                      ELSE IF kind = "series" THEN _parse_series_item(items[i])
                      ELSE _parse_movie_item(items[i])]
    IN  SelectSeq(parsed, LAMBDA entity : entity # None)

(* What a scraper call did: whether an exception left it, the calls of      *)
(* session.get it made, the value it returned.                              *)
Returned(fetches, ret) == [raised |-> FALSE, fetches |-> fetches, ret |-> ret]

(* search_movies without its outer try/except *)
search_movies_uncaught(query, limit, response) ==
    IF query = None THEN [raised |-> TRUE, fetches |-> 0, ret |-> <<>>]
    ELSE IF RequestFails(response)
    THEN [raised |-> TRUE, fetches |-> 1, ret |-> <<>>]
    ELSE Returned(1, ParseItems(response.content, Some(limit), "movie"))

(* search_movies: quote(query) raises on a query that is not a str; every   *)
(* exception of the body is caught and gives the empty list                 *)
search_movies(query, limit, response) ==
    IF query = None THEN Returned(0, <<>>)
    ELSE IF RequestFails(response) THEN Returned(1, <<>>)
    ELSE Returned(1, ParseItems(response.content, Some(limit), "movie"))

get_top_movies(limit, response) ==
    IF RequestFails(response) THEN Returned(1, <<>>)
    ELSE Returned(1, ParseItems(response.content, Some(limit), "movie"))

(* get_series: the query chooses the page requested and is quoted only     *)
(* when truthy                                                              *)
get_series(query, limit, response) ==
    IF RequestFails(response) THEN Returned(1, <<>>)
    ELSE Returned(1, ParseItems(response.content, Some(limit), "series"))

(* get_movie_details: the details dict, here its url, title and poster, or  *)
(* None after an exception                                                  *)
get_movie_details(movie_url, response) ==
    IF RequestFails(response) THEN Returned(1, None)
    ELSE Returned(1, Some([url |-> movie_url,
                           title |-> _extract_title(response.content.title),
                           poster |-> _extract_poster(response.content.poster)]))

(* CuevanaScraper.get_streams *)
scraper_get_streams(movie_url, response) ==
    IF RequestFails(response) THEN Returned(1, <<>>)
    ELSE Returned(1, ParseItems(response.content, None, "stream"))

-----------------------------------------------------------------------------
(* The scraper called from outside, and its parsers applied to one node *)

Scraped(op, listing, args, response, r) ==
    [op |-> op, listing |-> listing, args |-> args, response |-> response,
     raised |-> r.raised, fetches |-> r.fetches, ret |-> r.ret]

handlers == <<catalog_cache, metadata_cache, stream_cache, last, elapsed, conc>>

SearchMovies ==
    /\ scraped = NoCall
    /\ \E query \in Queries, limit \in Limits, response \in Responses(ListingPages) :
            /\ scraped' = Scraped("search_movies", TRUE,
                                  [query |-> query, limit |-> limit], response,
                                  search_movies(query, limit, response))
            /\ UNCHANGED <<handlers, computed>>

GetTopMovies ==
    /\ scraped = NoCall
    /\ \E limit \in Limits, response \in Responses(ListingPages) :
            /\ scraped' = Scraped("get_top_movies", TRUE, [limit |-> limit],
                                  response, get_top_movies(limit, response))
            /\ UNCHANGED <<handlers, computed>>

GetSeries ==
    /\ scraped = NoCall
    /\ \E query \in Queries, limit \in Limits,
           response \in Responses(ListingPages) :
            /\ scraped' = Scraped("get_series", TRUE,
                                  [query |-> query, limit |-> limit], response,
                                  get_series(query, limit, response))
            /\ UNCHANGED <<handlers, computed>>

GetMovieDetails ==
    /\ scraped = NoCall
    /\ \E movie_url \in MovieUrls, response \in Responses(DetailPages) :
            /\ scraped' = Scraped("get_movie_details", FALSE,
                                  [movie_url |-> movie_url], response,
                                  get_movie_details(movie_url, response))
            /\ UNCHANGED <<handlers, computed>>

GetStreams ==
    /\ scraped = NoCall
    /\ \E movie_url \in MovieUrls, response \in Responses(StreamPages) :
            /\ scraped' = Scraped("get_streams", FALSE,
                                  [movie_url |-> movie_url], response,
                                  scraper_get_streams(movie_url, response))
            /\ UNCHANGED <<handlers, computed>>

Parsed(op, element, ret) == [op |-> op, element |-> element, ret |-> ret]

ParseMovieItem ==
    /\ scraped = NoCall
    /\ \E element \in ItemElements :
            /\ scraped' = Parsed("_parse_movie_item", element,
                                 _parse_movie_item(element))
            /\ UNCHANGED <<handlers, computed>>

ParseSeriesItem ==
    /\ scraped = NoCall
    /\ \E element \in ItemElements :
            /\ scraped' = Parsed("_parse_series_item", element,
                                 _parse_series_item(element))
            /\ UNCHANGED <<handlers, computed>>

ParseStream ==
    /\ scraped = NoCall
    /\ \E element \in StreamElements :
            /\ scraped' = Parsed("_parse_stream", element, _parse_stream(element))
            /\ UNCHANGED <<handlers, computed>>

ExtractPoster ==
    /\ scraped = NoCall
    /\ \E poster \in Optional(Images) :
            /\ scraped' = Parsed("_extract_poster", poster, _extract_poster(poster))
            /\ UNCHANGED <<handlers, computed>>

(* The caller takes the result; the scraper keeps nothing of the call. *)
ScraperDone ==
    /\ scraped # NoCall
    /\ scraped' = NoCall
    /\ UNCHANGED <<handlers, computed>>

NextScraper ==
    \/ SearchMovies
    \/ GetTopMovies
    \/ GetSeries
    \/ GetMovieDetails
    \/ GetStreams
    \/ ParseMovieItem
    \/ ParseSeriesItem
    \/ ParseStream
    \/ ExtractPoster
    \/ ScraperDone

SpecScraper == Init /\ [][NextScraper]_vars

-----------------------------------------------------------------------------
(* Text utilities (src/src/utils.py)                                        *)
(*                                                                          *)
(* A float that is a quotient of two small naturals is the pair             *)
(* <<numerator, denominator>> in lowest terms: 0.0 is <<0, 1>>, 0.8 is      *)
(* <<4, 5>>.  Division in floats rounds two quotients to the same float     *)
(* only when they are equal, so comparing the pairs compares the floats.    *)

(* The longest text that is compared. *)
MaxLen == 3

Alphabet == {"a", "b", "c", "Á", " "}

RECURSIVE StringsOfLen(_)
StringsOfLen(n) ==
    IF n = 0 THEN {""}
    ELSE {s \o ch : s \in StringsOfLen(n - 1), ch \in Alphabet}

StringsUpTo(n) == UNION {StringsOfLen(k) : k \in 0..n}

Texts == StringsUpTo(MaxLen)
ShortTexts == StringsUpTo(MaxLen - 1)

Min(x, y) == IF x <= y THEN x ELSE y

RECURSIVE Gcd(_, _)
Gcd(x, y) == IF y = 0 THEN x ELSE Gcd(y, x % y)

(* the float n / d, d positive *)
Quotient(n, d) == <<n \div Gcd(n, d), d \div Gcd(n, d)>>

(* x < y and x <= y on floats *)
Less(x, y) == x[1] * y[2] < y[1] * x[2]
LessEq(x, y) == x[1] * y[2] <= y[1] * x[2]

(* unidecode on one character: the letter without its accent; an ASCII      *)
(* character is itself                                                      *)
UnidecodeChar(ch) == IF ch = "Á" THEN "A" ELSE ch

RECURSIVE unidecode(_)
unidecode(text) ==
    IF text = "" THEN ""
    ELSE UnidecodeChar(SubSeq(text, 1, 1)) \o unidecode(SubSeq(text, 2, Len(text)))

(* str.lower on one ASCII character *)
LowerChar(ch) ==
    LET upper == "ABCDEFGHIJKLMNOPQRSTUVWXYZ"
        lowered == "abcdefghijklmnopqrstuvwxyz"
        at == IndexFrom(upper, ch, 1)
    IN  IF at = 0 THEN ch ELSE SubSeq(lowered, at, at)

RECURSIVE lower(_)
lower(text) ==
    IF text = "" THEN ""
    ELSE LowerChar(SubSeq(text, 1, 1)) \o lower(SubSeq(text, 2, Len(text)))

Whitespace == {" ", "\t", "\n", "\r"}

(* re.sub(r'\s+', ' ', text): each run of whitespace becomes one blank *)
RECURSIVE CollapseWhitespace(_)
CollapseWhitespace(text) ==
    IF text = "" THEN ""
    ELSE IF SubSeq(text, 1, 1) \in Whitespace
    THEN IF Len(text) >= 2 /\ SubSeq(text, 2, 2) \in Whitespace
         THEN CollapseWhitespace(SubSeq(text, 2, Len(text)))
         ELSE " " \o CollapseWhitespace(SubSeq(text, 2, Len(text)))
    ELSE SubSeq(text, 1, 1) \o CollapseWhitespace(SubSeq(text, 2, Len(text)))

(* normalize_text *)
normalize_text(text) ==
    IF text = "" THEN ""
    ELSE strip(CollapseWhitespace(lower(unidecode(text))))

(* The table dist of levenshtein_distance on the normalized strings, read   *)
(* at its last cell.                                                        *)
EditTable(str1, str2) ==
    LET rows == Len(str1)
        cols == Len(str2)
        dist[i \in 0..rows, j \in 0..cols] ==
            IF i = 0 THEN j
            ELSE IF j = 0 THEN i
            ELSE LET cost == IF SubSeq(str1, i, i) = SubSeq(str2, j, j)
                             THEN 0 ELSE 1
                 IN  Min(Min(dist[i - 1, j] + 1, dist[i, j - 1] + 1),
                         dist[i - 1, j - 1] + cost)
    IN  dist[rows, cols]

(* levenshtein_distance: the two early returns stand before the             *)
(* normalization and return the length of the argument as it was given      *)
levenshtein_distance(str1, str2) ==
    IF str1 = "" THEN Len(str2)
    ELSE IF str2 = "" THEN Len(str1)
    ELSE EditTable(normalize_text(str1), normalize_text(str2))

(* SequenceMatcher.find_longest_match(alo, ahi, blo, bhi) without junk: of  *)
(* the longest blocks a[i:i+k] == b[j:j+k] inside the ranges the one that   *)
(* starts earliest in a and, of those, earliest in b; <<alo, blo, 0>> when  *)
(* no character matches.  Indices count from 0 as in the source.            *)
find_longest_match(a, b, alo, ahi, blo, bhi) ==
    LET blocks == {x \in (alo..(ahi - 1)) \X (blo..(bhi - 1)) \X (1..(ahi - alo)) :
                      /\ x[1] + x[3] <= ahi
                      /\ x[2] + x[3] <= bhi
                      /\ SubSeq(a, x[1] + 1, x[1] + x[3])
                            = SubSeq(b, x[2] + 1, x[2] + x[3])}
    IN  IF blocks = {} THEN <<alo, blo, 0>>
        ELSE CHOOSE x \in blocks :
                \A y \in blocks :
                    \/ x[3] > y[3]
                    \/ x[3] = y[3] /\ x[1] < y[1]
                    \/ x[3] = y[3] /\ x[1] = y[1] /\ x[2] <= y[2]

(* The sum of the sizes of SequenceMatcher.get_matching_blocks(): the       *)
(* longest block of the ranges, then the blocks of what is left of it and   *)
(* of what is right of it in both strings.                                  *)
RECURSIVE MatchingSize(_, _, _, _, _, _)
MatchingSize(a, b, alo, ahi, blo, bhi) ==
    LET x == find_longest_match(a, b, alo, ahi, blo, bhi)
        i == x[1]
        j == x[2]
        k == x[3]
    IN  IF k = 0 THEN 0
        ELSE k + (IF alo < i /\ blo < j
                  THEN MatchingSize(a, b, alo, i, blo, j) ELSE 0)
               + (IF i + k < ahi /\ j + k < bhi
                  THEN MatchingSize(a, b, i + k, ahi, j + k, bhi) ELSE 0)

(* SequenceMatcher(None, a, b).ratio(): 2.0 * matches / length, 1.0 for two *)
(* empty strings                                                            *)
ratio(a, b) ==
    LET matches == MatchingSize(a, b, 0, Len(a), 0, Len(b))
        length == Len(a) + Len(b)
    IN  IF length > 0 THEN Quotient(2 * matches, length) ELSE <<1, 1>>

(* calculate_similarity *)
calculate_similarity(str1, str2) ==
    IF str1 = "" \/ str2 = "" THEN <<0, 1>>
    ELSE ratio(normalize_text(str1), normalize_text(str2))

(* fuzzy_match *)
fuzzy_match(query, target, threshold) ==
    LessEq(threshold, calculate_similarity(query, target))

(* The largest number of candidates of a match. *)
MaxCandidates == 3

(* A slip that compares with >=: a candidate at the threshold wins, and of  *)
(* equal candidates the last.                                               *)
RECURSIVE BestFrom_last(_, _, _, _, _)
BestFrom_last(query, candidates, i, best_match, best_score) ==
    IF i > Len(candidates) THEN best_match
    ELSE LET score == calculate_similarity(query, candidates[i])
         IN  IF LessEq(best_score, score)
             THEN BestFrom_last(query, candidates, i + 1, Some(candidates[i]), score)
             ELSE BestFrom_last(query, candidates, i + 1, best_match, best_score)

(* The loop of find_best_match from candidate i on: a candidate replaces    *)
(* the best one when its score is greater than the best score.              *)
RECURSIVE BestFrom(_, _, _, _, _)
BestFrom(query, candidates, i, best_match, best_score) ==
    IF i > Len(candidates) THEN best_match
    ELSE LET score == calculate_similarity(query, candidates[i])
         IN  IF Less(best_score, score)
             THEN BestFrom(query, candidates, i + 1, Some(candidates[i]), score)
             ELSE BestFrom(query, candidates, i + 1, best_match, best_score)

find_best_match_last(query, candidates, threshold) ==
    IF candidates = <<>> THEN None
    ELSE BestFrom_last(query, candidates, 1, None, threshold)

(* find_best_match: None or Some of the candidate *)
find_best_match(query, candidates, threshold) ==
    IF candidates = <<>> THEN None
    ELSE BestFrom(query, candidates, 1, None, threshold)

(* A slip that sorts ascending and reverses: equal scores come out in the   *)
(* reverse of their input order.                                            *)
RECURSIVE SortByScore_reversed(_)
SortByScore_reversed(matches) ==
    IF matches = <<>> THEN <<>>
    ELSE LET m == matches[1]
             rest == SortByScore_reversed(Tail(matches))
        IN  SelectSeq(rest, LAMBDA x : LessEq(m[2], x[2])) \o <<m>> \o
            SelectSeq(rest, LAMBDA x : Less(x[2], m[2]))

(* matches.sort(key=lambda x: x[1], reverse=True): a stable sort, which     *)
(* with reverse=True keeps elements of equal key in their order.            *)
RECURSIVE SortByScore(_)
SortByScore(matches) ==
    IF matches = <<>> THEN <<>>
    ELSE LET m == matches[1]
             rest == SortByScore(Tail(matches))
        IN  SelectSeq(rest, LAMBDA x : Less(m[2], x[2])) \o <<m>> \o
            SelectSeq(rest, LAMBDA x : LessEq(x[2], m[2]))

(* find_all_matches: the (candidate, score) tuples *)
find_all_matches(query, candidates, threshold) ==
    LET scored == [i \in 1..Len(candidates) |->
                      <<candidates[i], calculate_similarity(query, candidates[i])>>]
        matches == SelectSeq(scored, LAMBDA m : LessEq(threshold, m[2]))
    IN  SortByScore(matches)

-----------------------------------------------------------------------------
(* The text utilities applied to texts of the alphabet *)

Computed(op, args, ret) == [op |-> op, args |-> args, ret |-> ret]

NormalizeText ==
    /\ computed = NoCall
    /\ \E text \in Texts :
            /\ computed' = Computed("normalize_text", <<text>>, normalize_text(text))
            /\ UNCHANGED <<handlers, scraped>>

LevenshteinDistance ==
    /\ computed = NoCall
    /\ \E str1 \in Texts, str2 \in Texts :
            /\ computed' = Computed("levenshtein_distance", <<str1, str2>>,
                                    levenshtein_distance(str1, str2))
            /\ UNCHANGED <<handlers, scraped>>

(* Three distances measured between three texts. *)
LevenshteinDistances ==
    /\ computed = NoCall
    /\ \E a \in ShortTexts, b \in ShortTexts, c \in ShortTexts :
            /\ computed' = Computed("levenshtein_distances", <<a, b, c>>,
                                    [ab |-> levenshtein_distance(a, b),
                                     bc |-> levenshtein_distance(b, c),
                                     ac |-> levenshtein_distance(a, c)])
            /\ UNCHANGED <<handlers, scraped>>

CalculateSimilarity ==
    /\ computed = NoCall
    /\ \E str1 \in Texts, str2 \in Texts :
            /\ computed' = Computed("calculate_similarity", <<str1, str2>>,
                                    calculate_similarity(str1, str2))
            /\ UNCHANGED <<handlers, scraped>>

TextDone ==
    /\ computed # NoCall
    /\ computed' = NoCall
    /\ UNCHANGED <<handlers, scraped>>

NextText ==
    \/ NormalizeText
    \/ LevenshteinDistance
    \/ LevenshteinDistances
    \/ CalculateSimilarity
    \/ TextDone

SpecText == Init /\ [][NextText]_vars

(* The titles matched: against the query "ab" they score 1 twice, 4/5      *)
(* twice, 2/3 and 0.                                                        *)
Titles == {"ab", "Áb", "abc", "abd", "b", ""}
MatchQueries == {"ab", "abc"}
Thresholds == {<<4, 5>>, <<1, 2>>, <<1, 1>>}
CandidateLists == SeqsUpTo(Titles, MaxCandidates)

FindBestMatch ==
    /\ computed = NoCall
    /\ \E query \in MatchQueries, candidates \in CandidateLists,
           threshold \in Thresholds :
            /\ computed' = Computed("find_best_match",
                                    <<query, candidates, threshold>>,
                                    find_best_match(query, candidates, threshold))
            /\ UNCHANGED <<handlers, scraped>>

FindAllMatches ==
    /\ computed = NoCall
    /\ \E query \in MatchQueries, candidates \in CandidateLists,
           threshold \in Thresholds :
            /\ computed' = Computed("find_all_matches",
                                    <<query, candidates, threshold>>,
                                    find_all_matches(query, candidates, threshold))
            /\ UNCHANGED <<handlers, scraped>>

NextMatch ==
    \/ FindBestMatch
    \/ FindAllMatches
    \/ TextDone

SpecMatch == Init /\ [][NextMatch]_vars

(* Python's "sub in text" on strings: sub occurs in text as a contiguous    *)
(* run; the empty string occurs in every string.                            *)
In(sub, text) ==
    \E at \in 1..(Len(text) - Len(sub) + 1) :
        SubSeq(text, at, at + Len(sub) - 1) = sub

(* The threshold 0.85 that match_titles hands to fuzzy_match. *)
TitleThreshold == <<17, 20>>

(* A slip that takes the partial branch whatever allow_partial says. *)
match_titles_partial(title1, title2, allow_partial) ==
    LET norm1 == normalize_text(title1)
        norm2 == normalize_text(title2)
    IN  IF norm1 = norm2 THEN TRUE
        ELSE IF In(norm1, norm2) \/ In(norm2, norm1) THEN TRUE
        ELSE fuzzy_match(title1, title2, TitleThreshold)

(* match_titles *)
match_titles(title1, title2, allow_partial) ==
    LET norm1 == normalize_text(title1)
        norm2 == normalize_text(title2)
    IN  IF norm1 = norm2 THEN TRUE
        ELSE IF allow_partial /\ (In(norm1, norm2) \/ In(norm2, norm1)) THEN TRUE
        ELSE fuzzy_match(title1, title2, TitleThreshold)

(* The titles matched: every short text, and longer titles that reach the   *)
(* threshold: one a substring of the other (6/7), neither (12/14).          *)
TitlePool == ShortTexts \cup {"abc", "abcd", "Ábc", "abcabca", "abcabcb"}

MatchTitles ==
    /\ computed = NoCall
    /\ \E title1 \in TitlePool, title2 \in TitlePool, allow_partial \in BOOLEAN :
            /\ computed' = Computed("match_titles",
                                    <<title1, title2, allow_partial>>,
                                    match_titles(title1, title2, allow_partial))
            /\ UNCHANGED <<handlers, scraped>>

NextTitles ==
    \/ MatchTitles
    \/ TextDone

SpecTitles == Init /\ [][NextTitles]_vars

-----------------------------------------------------------------------------
(* Properties of the scraper *)

ScraperOps == {"search_movies", "get_top_movies", "get_series",
               "get_movie_details", "get_streams"}

Malformed(element) ==
    \/ element = Unparsable
    \/ element.title = None
    \/ element.link = None

ListingOps == {"search_movies", "get_top_movies", "get_series"}

(* C22: for every limit >= 0, search_movies, get_top_movies and get_series  *)
(* return at most limit entities, and these are exactly the entities of the *)
(* well-formed nodes among the first limit nodes of the page, in page       *)
(* order: the limit cuts the nodes before the malformed ones are dropped,   *)
(* so a later well-formed node never replaces a dropped one.                *)
C22_LimitBeforeDrop ==
    scraped.op \in ListingOps =>
        /\ Len(scraped.ret) <= scraped.args.limit
        /\ (scraped.fetches = 1 /\ ~RequestFails(scraped.response)) =>
              LET content == scraped.response.content
                  n == Min(scraped.args.limit, Len(content))
                  kept == {i \in 1..n : ~Malformed(content[i])}
                  nth(k) == CHOOSE i \in kept :
                                Cardinality({j \in kept : j <= i}) = k
              IN  /\ Len(scraped.ret) = Cardinality(kept)
                  /\ \A k \in 1..Len(scraped.ret) :
                        scraped.ret[k] =
                            IF scraped.op = "get_series"
                            THEN _parse_series_item(content[nth(k)])
                            ELSE _parse_movie_item(content[nth(k)])

(* A page whose first node is malformed and whose second is well formed,    *)
(* read with limit 1: nothing is returned.                                  *)
C22_Witness ==
    /\ scraped.op = "get_series"
    /\ scraped.args.limit = 1
    /\ scraped.fetches = 1
    /\ ~RequestFails(scraped.response)
    /\ Len(scraped.response.content) = 2
    /\ Malformed(scraped.response.content[1])
    /\ ~Malformed(scraped.response.content[2])
    /\ scraped.ret = <<>>

ItemParsers == {"_parse_movie_item", "_parse_series_item"}

(* a URL with a scheme and a network location *)
IsAbsoluteUrl(url) == startswith(url, "http://") \/ startswith(url, "https://")

(* C13: every entity of _parse_movie_item and _parse_series_item has the id *)
(* 'cuevanap_' followed by its own url, and its url is absolute.            *)
C13_IdFromAbsoluteUrl ==
    (scraped.op \in ItemParsers /\ scraped.ret # None)
    => /\ scraped.ret.id = ID_PREFIX \o scraped.ret.url
       /\ IsAbsoluteUrl(scraped.ret.url)

(* the first non-empty of two optional attribute values, None when none *)
FirstNonEmpty(attrs, name1, name2) ==
    IF name1 \in DOMAIN attrs /\ attrs[name1] # "" THEN Some(attrs[name1])
    ELSE IF name2 \in DOMAIN attrs /\ attrs[name2] # "" THEN Some(attrs[name2])
    ELSE None

(* C14: the url of a stream link is the first non-empty of href and         *)
(* data-url; the node is discarded only when neither is non-empty; a        *)
(* returned stream link has a non-empty url.                                *)
C14_StreamUrlFirstNonEmpty ==
    (scraped.op = "_parse_stream" /\ scraped.element # Unparsable)
    => LET want == FirstNonEmpty(scraped.element.attrs, "href", "data-url")
       IN  IF want = None THEN scraped.ret = None
           ELSE /\ scraped.ret # None
                /\ scraped.ret.url = want[1]
                /\ scraped.ret.url # ""

(* the poster wanted of an optional img tag: src when non-empty, else       *)
(* data-src when non-empty, else the empty string                           *)
WantedPoster(poster) ==
    IF poster = None THEN Some("")
    ELSE LET want == FirstNonEmpty(poster[1], "src", "data-src")
         IN  IF want = None THEN Some("") ELSE want

(* C15: the poster of a listing entity and the poster of a detail are both  *)
(* the src when non-empty, else the data-src when non-empty, else the empty *)
(* string, so that both are the same for the same image attributes.         *)
C15_PosterResolution ==
    /\ (scraped.op \in ItemParsers /\ scraped.ret # None)
       => /\ scraped.ret.poster = WantedPoster(scraped.element.poster)
          /\ scraped.ret.poster = _extract_poster(scraped.element.poster)
    /\ scraped.op = "_extract_poster"
       => scraped.ret = WantedPoster(scraped.element)

-----------------------------------------------------------------------------
(* Properties of the text utilities *)

(* the scores of the candidates of the recorded match against its query *)
ScoreOf(i) == calculate_similarity(computed.args[1], computed.args[2][i])

C17_AllMatchesStableSorted ==
    computed.op = "find_all_matches" =>
        LET candidates == computed.args[2]
            threshold == computed.args[3]
            scored == [i \in 1..Len(candidates) |-> <<candidates[i], ScoreOf(i)>>]
            kept == SelectSeq(scored, LAMBDA m : LessEq(threshold, m[2]))
            ret == computed.ret
        IN  /\ Len(ret) = Len(kept)
            /\ \A i \in 1..(Len(ret) - 1) : LessEq(ret[i + 1][2], ret[i][2])
            /\ \A i \in 1..Len(kept) :
                  SelectSeq(ret, LAMBDA m : m[2] = kept[i][2])
                      = SelectSeq(kept, LAMBDA m : m[2] = kept[i][2])

C17_Witness ==
    /\ computed.op = "find_all_matches"
    /\ computed.args = <<"ab", <<"abd", "b", "abc">>, <<4, 5>>>>
    /\ computed.ret = <<<<"abd", <<4, 5>>>>, <<"abc", <<4, 5>>>>>>

(* C18: levenshtein_distance(a, b) is a natural number, and is zero exactly *)
(* when normalize_text(a) = normalize_text(b).                              *)
C18_ZeroIffNormalizedEqual ==
    computed.op = "levenshtein_distance" =>
        /\ computed.ret \in Nat
        /\ computed.ret = 0
              <=> normalize_text(computed.args[1]) = normalize_text(computed.args[2])

(* C19: levenshtein_distance(a, c) is at most levenshtein_distance(a, b)    *)
(* plus levenshtein_distance(b, c).                                         *)
C19_TriangleInequality ==
    computed.op = "levenshtein_distances" =>
        computed.ret.ac <= computed.ret.ab + computed.ret.bc

(* C20: calculate_similarity(a, b) equals calculate_similarity(b, a) and    *)
(* lies between 0 and 1.                                                    *)
C20_SimilaritySymmetric ==
    computed.op = "calculate_similarity" =>
        /\ computed.ret = calculate_similarity(computed.args[2], computed.args[1])
        /\ LessEq(<<0, 1>>, computed.ret)
        /\ LessEq(computed.ret, <<1, 1>>)

(* C21: match_titles(a, b, allow_partial) is true exactly when the          *)
(* normalized forms of a and b are equal, or allow_partial is set and one   *)
(* normalized form is a substring of the other, or calculate_similarity(a,  *)
(* b) is at least 0.85; with allow_partial unset, titles whose normalized   *)
(* forms differ and of which one is a substring of the other match only     *)
(* through that threshold.                                                  *)
C21_MatchTitles ==
    computed.op = "match_titles" =>
        LET a == computed.args[1]
            b == computed.args[2]
            allow_partial == computed.args[3]
            norm1 == normalize_text(a)
            norm2 == normalize_text(b)
            partial == In(norm1, norm2) \/ In(norm2, norm1)
            fuzzy == LessEq(<<17, 20>>, calculate_similarity(a, b))
        IN  /\ computed.ret <=> (norm1 = norm2 \/ (allow_partial /\ partial) \/ fuzzy)
            /\ (~allow_partial /\ norm1 # norm2 /\ partial)
                    => (computed.ret <=> fuzzy)

(* A title that is a substring of the other, matched with allow_partial     *)
(* unset through the threshold alone (6/7). *)
C21_Witness ==
    /\ computed.op = "match_titles"
    /\ computed.args = <<"abc", "abcd", FALSE>>
    /\ computed.ret = TRUE

====
